---------------------------- MODULE Spec2Model ----------------------------
(***************************************************************************)
(* Wait-state tracking of yb/util/wait_state.{h,cc}: the AUHMetadata and   *)
(* AUHAuxInfo records, the WaitStateInfo container, the thread-local       *)
(* current pointer, and the two scoped guards ScopedWaitState and          *)
(* ScopedWaitStatus.                                                       *)
(***************************************************************************)
EXTENDS Integers, Sequences, FiniteSets, TLC

(***************************************************************************)
(* Bounds and value domains.                                               *)
(***************************************************************************)

\* Largest number of guard objects alive at once on a thread's stack.
MaxDepth == 2

\* Largest number of guard objects alive at once on a thread's stack where
\* nesting plays no part (SpecStatus).
MaxStatusDepth == 1

\* Longest id vector (std::vector<uint64_t>) drawn as an input.
MaxVecLen == 3

Threads == {"t1", "t2"}

\* The threads that run scoped guards; the others call the plain operations.
GuardThreads == {"t1"}

Containers == {"c1", "c2"}

\* An empty WaitStateInfoPtr (std::shared_ptr holding nothing).
NullPtr == "nullptr"

Ptrs == Containers \cup {NullPtr}

\* WaitStateCode::Unused, the one named code; the others are opaque values
\* of the underlying uint32_t.
Unused == 0

Codes == {Unused, 1, 2}

\* The value of ScopedWaitStatus::prev_state_ when the constructor did not
\* assign it (empty target).  No code path reads it in that case.
Unassigned == -1

\* A uint64_t is the sequence of its eight 8-bit limbs, least significant
\* first, so that products are taken in 64-bit unsigned arithmetic.
LimbBase == 256

NumLimbs == 8

\* The uint64_t of value n, for n below LimbBase.
U64(n) == [i \in 1..NumLimbs |-> IF i = 1 THEN n ELSE 0]

\* The uint64_t of value 2^(8 * (i - 1)) * n, for n below LimbBase.
U64Shifted(n, i) == [j \in 1..NumLimbs |-> IF j = i THEN n ELSE 0]

\* x + y for limbwise disjoint x and y (no carries).
U64Or(x, y) == [i \in 1..NumLimbs |-> x[i] + y[i]]

\* The sum of x[i] * y[k + 1 - i] for i in from..k: the digit products that
\* land on limb k.
RECURSIVE ColumnSum(_, _, _, _)
ColumnSum(x, y, k, from) ==
    IF from > k THEN 0
    ELSE x[from] * y[k + 1 - from] + ColumnSum(x, y, k, from + 1)

\* Limbs k..NumLimbs of x * y, given the carry into limb k; the carry out of
\* the last limb is dropped.
RECURSIVE MulFrom(_, _, _, _)
MulFrom(x, y, k, carry) ==
    IF k > NumLimbs THEN <<>>
    ELSE LET t == ColumnSum(x, y, k, 1) + carry
         IN <<t % LimbBase>> \o MulFrom(x, y, k + 1, t \div LimbBase)

\* x * y on uint64_t: the product modulo 2^64.
U64Mul(x, y) == MulFrom(x, y, 1, 0)

\* The id vector <<1, ..., n>>.
Vec(n) == [i \in 1..n |-> U64(i)]

VecValues == {Vec(n) : n \in 0..MaxVecLen} \cup {<<U64(2), U64(1)>>}

\* The ids set_top_level_request_id is called with where the product does
\* not matter.
SmallIds == {U64(0), U64(1)}

QueryIdValues == {-1, 0, 1}

RequestIdValues == {0, 1}

HostValues == {0, 1}

PortValues == {0, 1}

StrValues == {"", "a"}

MetaFields ==
    {"top_level_request_id", "top_level_node_id", "query_id",
     "current_request_id", "client_node_host", "client_node_port"}

AuxFields == {"tablet_id", "table_id", "method"}

\* struct AUHMetadata
AUHMetadata ==
    [top_level_request_id : VecValues,
     top_level_node_id : VecValues,
     query_id : QueryIdValues,
     current_request_id : RequestIdValues,
     client_node_host : HostValues,
     client_node_port : PortValues]

\* struct AUHAuxInfo
AUHAuxInfo == [tablet_id : StrValues, table_id : StrValues, method : StrValues]

\* A default-constructed AUHMetadata: empty vectors, zero integers.
DefaultMetadata ==
    [top_level_request_id |-> <<>>,
     top_level_node_id |-> <<>>,
     query_id |-> 0,
     current_request_id |-> 0,
     client_node_host |-> 0,
     client_node_port |-> 0]

\* A default-constructed AUHAuxInfo: empty strings.
DefaultAuxInfo == [tablet_id |-> "", table_id |-> "", method |-> ""]

(***************************************************************************)
(* The external message PB.  An optional field is absent (has = FALSE) or  *)
(* present with a value; a getter of an absent field returns the type's    *)
(* default.  A repeated field is the sequence of the values added.         *)
(***************************************************************************)

NoInt == [has |-> FALSE, val |-> 0]

NoStr == [has |-> FALSE, val |-> ""]

Present(v) == [has |-> TRUE, val |-> v]

\* pb.query_id(), pb.tablet_id(), ...: the value, or the default when absent.
GetInt(f) == IF f.has THEN f.val ELSE 0

GetStr(f) == IF f.has THEN f.val ELSE ""

\* A freshly constructed metadata message: nothing set, nothing added.
EmptyMetadataPB ==
    [top_level_request_id |-> <<>>,
     top_level_node_id |-> <<>>,
     query_id |-> NoInt,
     current_request_id |-> NoInt,
     client_node_host |-> NoInt,
     client_node_port |-> NoInt]

EmptyAuxInfoPB == [tablet_id |-> NoStr, table_id |-> NoStr, method |-> NoStr]

\* A freshly constructed wait state message, as WaitStateInfo::ToPB receives
\* it.  wait_status_code_as_string, written in debug builds only, is left
\* out.
EmptyWaitStatePB ==
    [metadata |-> EmptyMetadataPB,
     wait_status_code |-> NoInt,
     aux_info |-> EmptyAuxInfoPB]

(***************************************************************************)
(* AUHMetadata and AUHAuxInfo: the merges and the wire conversions.        *)
(***************************************************************************)

\* Mutant of AUHMetadata_UpdateFrom: the node id is appended to the one held
\* instead of replacing it.
AUHMetadata_UpdateFrom_append(self, other) ==
    [top_level_request_id |->
        IF other.top_level_request_id # <<>>
        THEN other.top_level_request_id ELSE self.top_level_request_id,
     top_level_node_id |-> self.top_level_node_id \o other.top_level_node_id,
     query_id |->
        IF other.query_id # 0 THEN other.query_id ELSE self.query_id,
     current_request_id |->
        IF other.current_request_id # 0
        THEN other.current_request_id ELSE self.current_request_id,
     client_node_host |->
        IF other.client_node_host # 0
        THEN other.client_node_host ELSE self.client_node_host,
     client_node_port |->
        IF other.client_node_port # 0
        THEN other.client_node_port ELSE self.client_node_port]

\* AUHMetadata::UpdateFrom: *this after UpdateFrom(other).
AUHMetadata_UpdateFrom(self, other) ==
    [top_level_request_id |->
        IF other.top_level_request_id # <<>>
        THEN other.top_level_request_id ELSE self.top_level_request_id,
     top_level_node_id |->
        IF other.top_level_node_id # <<>>
        THEN other.top_level_node_id ELSE self.top_level_node_id,
     query_id |->
        IF other.query_id # 0 THEN other.query_id ELSE self.query_id,
     current_request_id |->
        IF other.current_request_id # 0
        THEN other.current_request_id ELSE self.current_request_id,
     client_node_host |->
        IF other.client_node_host # 0
        THEN other.client_node_host ELSE self.client_node_host,
     client_node_port |->
        IF other.client_node_port # 0
        THEN other.client_node_port ELSE self.client_node_port]

\* Mutant of AUHAuxInfo_UpdateFrom: plain assignment, blanks included.
AUHAuxInfo_UpdateFrom_assign(self, other) == other

\* AUHAuxInfo::UpdateFrom: *this after UpdateFrom(other).
AUHAuxInfo_UpdateFrom(self, other) ==
    [tablet_id |-> IF other.tablet_id # "" THEN other.tablet_id ELSE self.tablet_id,
     table_id |-> IF other.table_id # "" THEN other.table_id ELSE self.table_id,
     method |-> IF other.method # "" THEN other.method ELSE self.method]

\* AUHMetadata::ToPB: the message pb after self.ToPB(&pb).
AUHMetadata_ToPB(self, pb) ==
    [top_level_request_id |->
        IF Len(self.top_level_request_id) = 2
        THEN pb.top_level_request_id
                \o <<self.top_level_request_id[1], self.top_level_request_id[2]>>
        ELSE pb.top_level_request_id,
     top_level_node_id |->
        IF Len(self.top_level_node_id) = 2
        THEN pb.top_level_node_id
                \o <<self.top_level_node_id[1], self.top_level_node_id[2]>>
        ELSE pb.top_level_node_id,
     query_id |->
        IF self.query_id # 0 THEN Present(self.query_id) ELSE pb.query_id,
     current_request_id |->
        IF self.current_request_id # 0
        THEN Present(self.current_request_id) ELSE pb.current_request_id,
     client_node_host |->
        IF self.client_node_host # 0
        THEN Present(self.client_node_host) ELSE pb.client_node_host,
     client_node_port |->
        IF self.client_node_port # 0
        THEN Present(self.client_node_port) ELSE pb.client_node_port]

\* Mutant of AUHMetadata_FromPB: the node id is read from the request id
\* field.
AUHMetadata_FromPB_pasted(pb) ==
    [top_level_request_id |-> pb.top_level_request_id,
     top_level_node_id |-> pb.top_level_request_id,
     query_id |-> GetInt(pb.query_id),
     current_request_id |-> GetInt(pb.current_request_id),
     client_node_host |-> GetInt(pb.client_node_host),
     client_node_port |-> GetInt(pb.client_node_port) % 65536]

\* AUHMetadata::FromPB
AUHMetadata_FromPB(pb) ==
    [top_level_request_id |-> pb.top_level_request_id,
     top_level_node_id |-> pb.top_level_node_id,
     query_id |-> GetInt(pb.query_id),
     current_request_id |-> GetInt(pb.current_request_id),
     client_node_host |-> GetInt(pb.client_node_host),
     client_node_port |-> GetInt(pb.client_node_port) % 65536]

\* AUHMetadata::UpdateFromPB: *this after UpdateFromPB(pb).  has_ of a
\* repeated field is taken to mean that the message carries at least one
\* element of it; the port is tested by value, the other integers by
\* presence.
AUHMetadata_UpdateFromPB(self, pb) ==
    [top_level_request_id |->
        IF pb.top_level_request_id # <<>>
        THEN pb.top_level_request_id ELSE self.top_level_request_id,
     top_level_node_id |->
        IF pb.top_level_node_id # <<>>
        THEN pb.top_level_node_id ELSE self.top_level_node_id,
     query_id |->
        IF pb.query_id.has THEN GetInt(pb.query_id) ELSE self.query_id,
     current_request_id |->
        IF pb.current_request_id.has
        THEN GetInt(pb.current_request_id) ELSE self.current_request_id,
     client_node_host |->
        IF pb.client_node_host.has
        THEN GetInt(pb.client_node_host) ELSE self.client_node_host,
     client_node_port |->
        IF GetInt(pb.client_node_port) # 0
        THEN GetInt(pb.client_node_port) % 65536 ELSE self.client_node_port]

\* AUHAuxInfo::ToPB: the message pb after self.ToPB(&pb).
AUHAuxInfo_ToPB(self, pb) ==
    [tablet_id |-> Present(self.tablet_id),
     table_id |-> Present(self.table_id),
     method |-> Present(self.method)]

\* AUHAuxInfo::FromPB
AUHAuxInfo_FromPB(pb) ==
    [tablet_id |-> GetStr(pb.tablet_id),
     table_id |-> GetStr(pb.table_id),
     method |-> GetStr(pb.method)]

(***************************************************************************)
(* The program's state.                                                    *)
(***************************************************************************)
VARIABLES
    code,            \* WaitStateInfo::code_ of each container (std::atomic)
    metadata,        \* WaitStateInfo::metadata_ of each container
    aux_info,        \* WaitStateInfo::aux_info_ of each container
    tls,             \* WaitStateInfo::threadlocal_wait_state_ of each thread
    scopes,          \* the guard objects alive on each thread's stack, oldest first
    pc,              \* the operation each thread is inside, and where in it
    mutex,           \* WaitStateInfo::mutex_ of each container: its holder
    pb_out,          \* the message each thread's ToPB is writing, or wrote last
    initial_code,    \* history: code in the initial state
    initial_tls,     \* history: tls in the initial state
    adopted,         \* history: the arguments of each thread's live ScopedWaitState guards
    reset_called,    \* history: per live guard, whether ResetToPrevStatus() was called by hand
    snap,            \* history: per thread, the records its ToPB found when it took the mutex_
    whole            \* history: per container, the records left by its operations so far, each taken whole

\* The program's variables as the operations taken whole read and write
\* them.
prog == <<code, metadata, aux_info, tls, scopes>>

\* The program's variables that matter only while an operation is under way:
\* where the specifications take each operation as one step, every thread is
\* between operations and every mutex_ is free.
steps == <<pc, mutex, pb_out>>

\* The history variables: no operation reads them.  adopted is kept by
\* SpecNested, reset_called by SpecReset, snap and whole by SpecLock;
\* elsewhere they stay as they start.
hist == <<initial_code, initial_tls, adopted, reset_called, snap, whole>>

\* What the specifications that take each operation as one step leave alone.
idle == <<steps, hist>>

vars == <<prog, steps, hist>>

\* A thread between operations.
Idle == [op |-> "idle"]

\* No holder of a mutex_.
NoThread == "none"

\* No records noted.
NoSnap == <<>>

\* Every thread between operations, every mutex_ free, no message written.
IdleSteps ==
    /\ pc = [t \in Threads |-> Idle]
    /\ mutex = [c \in Containers |-> NoThread]
    /\ pb_out = [t \in Threads |-> EmptyWaitStatePB]
    /\ snap = [t \in Threads |-> NoSnap]
    /\ whole = [c \in Containers |-> <<metadata[c], aux_info[c]>>]

\* WaitStateInfo::get_state of container c.
get_state(c) == code[c]

\* Mutant of set_state: the store to code_ is lost.
set_state_lost(c, x) == code

\* WaitStateInfo::set_state (TRACK_WAIT_HISTORY is not defined): the codes of
\* all containers after c's set_state(x).
set_state(c, x) == [code EXCEPT ![c] = x]

\* Mutant of CurrentWaitState: a thread with an empty slot is given a
\* process-wide default container.
CurrentWaitState_default(t) == IF tls[t] = NullPtr THEN "c1" ELSE tls[t]

\* WaitStateInfo::CurrentWaitState on thread t.
CurrentWaitState(t) == tls[t]

\* Mutant of SetCurrentWaitState: the slot is one per process, not one per
\* thread.
SetCurrentWaitState_global(t, wait_state) == [u \in Threads |-> wait_state]

\* WaitStateInfo::SetCurrentWaitState on thread t: the slots afterwards.
SetCurrentWaitState(t, wait_state) == [tls EXCEPT ![t] = wait_state]

\* Mutant of UpdateMetadata: the argument replaces the metadata.
UpdateMetadata_replace(c, meta) == [metadata EXCEPT ![c] = meta]

\* WaitStateInfo::UpdateMetadata of container c (under its mutex_): the
\* metadata of all containers afterwards.
UpdateMetadata(c, meta) ==
    [metadata EXCEPT ![c] = AUHMetadata_UpdateFrom(@, meta)]

\* WaitStateInfo::UpdateAuxInfo of container c (under its mutex_).
UpdateAuxInfo(c, aux) ==
    [aux_info EXCEPT ![c] = AUHAuxInfo_UpdateFrom(@, aux)]

\* WaitStateInfo::ToPB of container c (under its mutex_; the code is read
\* with get_state): the message pb afterwards.
WaitStateInfo_ToPB(c, pb) ==
    [metadata |-> AUHMetadata_ToPB(metadata[c], pb.metadata),
     wait_status_code |-> Present(get_state(c)),
     aux_info |-> AUHAuxInfo_ToPB(aux_info[c], pb.aux_info)]

\* Mutant of ScopedWaitState_ctor: prev_state_ is left empty instead of
\* capturing the slot.
ScopedWaitState_ctor_uncaptured(t) ==
    [kind |-> "ScopedWaitState", prev_state |-> NullPtr]

\* ScopedWaitState::ScopedWaitState on thread t: the guard object built
\* (before the constructor installs its argument).
ScopedWaitState_ctor(t) ==
    [kind |-> "ScopedWaitState", prev_state |-> CurrentWaitState(t)]

\* Mutant of ScopedWaitStatus_ctor: prev_state_ is read after set_state.
ScopedWaitStatus_ctor_late(wait_state, state) ==
    [kind |-> "ScopedWaitStatus",
     wait_state |-> wait_state,
     state |-> state,
     prev_state |-> IF wait_state # NullPtr THEN state ELSE Unassigned]

\* ScopedWaitStatus::ScopedWaitStatus (both forms; the one-argument form
\* passes CurrentWaitState()): the guard object built.
ScopedWaitStatus_ctor(wait_state, state) ==
    [kind |-> "ScopedWaitStatus",
     wait_state |-> wait_state,
     state |-> state,
     prev_state |-> IF wait_state # NullPtr THEN get_state(wait_state)
                    ELSE Unassigned]

\* Mutant of ResetToPrevStatus: restores without comparing.
ResetToPrevStatus_unconditional(g) ==
    IF g.wait_state # NullPtr
    THEN set_state(g.wait_state, g.prev_state)
    ELSE code

\* ScopedWaitStatus::ResetToPrevStatus of guard g: the codes afterwards.
ResetToPrevStatus(g) ==
    IF g.wait_state # NullPtr /\ get_state(g.wait_state) = g.state
    THEN set_state(g.wait_state, g.prev_state)
    ELSE code

Push(t, g) == [scopes EXCEPT ![t] = Append(@, g)]

Pop(t) == [scopes EXCEPT ![t] = SubSeq(@, 1, Len(@) - 1)]

Top(t) == scopes[t][Len(scopes[t])]

(***************************************************************************)
(* The operations, one action each, over the program's variables.          *)
(***************************************************************************)

\* WaitStateInfo::SetCurrentWaitState(wait_state) called on thread t.
CallSetCurrentWaitState(t, wait_state) ==
    /\ tls' = SetCurrentWaitState(t, wait_state)
    /\ UNCHANGED <<code, metadata, aux_info, scopes>>

\* SET_WAIT_STATUS_TO(ptr, state).
SET_WAIT_STATUS_TO(ptr, state) ==
    /\ code' = IF ptr # NullPtr THEN set_state(ptr, state) ELSE code
    /\ UNCHANGED <<metadata, aux_info, tls, scopes>>

\* SET_WAIT_STATUS(state) on thread t.
SET_WAIT_STATUS(t, state) ==
    SET_WAIT_STATUS_TO(CurrentWaitState(t), state)

\* SCOPED_ADOPT_WAIT_STATE(ptr) on thread t: a ScopedWaitState enters scope.
SCOPED_ADOPT_WAIT_STATE(t, ptr) ==
    /\ scopes' = Push(t, ScopedWaitState_ctor(t))
    /\ tls' = SetCurrentWaitState(t, ptr)
    /\ UNCHANGED <<code, metadata, aux_info>>

\* Mutant of ScopedWaitState_dtor: restores only a slot that is still set.
ScopedWaitState_dtor_if_set(t) ==
    /\ scopes[t] # <<>>
    /\ Top(t).kind = "ScopedWaitState"
    /\ tls' = IF CurrentWaitState(t) # NullPtr
              THEN SetCurrentWaitState(t, Top(t).prev_state)
              ELSE tls
    /\ scopes' = Pop(t)
    /\ UNCHANGED <<code, metadata, aux_info>>

\* ScopedWaitState::~ScopedWaitState: thread t's innermost guard, a
\* ScopedWaitState, leaves scope.
ScopedWaitState_dtor(t) ==
    /\ scopes[t] # <<>>
    /\ Top(t).kind = "ScopedWaitState"
    /\ tls' = SetCurrentWaitState(t, Top(t).prev_state)
    /\ scopes' = Pop(t)
    /\ UNCHANGED <<code, metadata, aux_info>>

\* SCOPED_WAIT_STATUS_FOR(ptr, state) on thread t: a ScopedWaitStatus enters
\* scope.
SCOPED_WAIT_STATUS_FOR(t, ptr, state) ==
    /\ scopes' = Push(t, ScopedWaitStatus_ctor(ptr, state))
    /\ code' = IF ptr # NullPtr THEN set_state(ptr, state) ELSE code
    /\ UNCHANGED <<metadata, aux_info, tls>>

\* SCOPED_WAIT_STATUS(state) on thread t.
SCOPED_WAIT_STATUS(t, state) ==
    SCOPED_WAIT_STATUS_FOR(t, CurrentWaitState(t), state)

\* ResetToPrevStatus() called by hand on the i-th guard of thread t.
CallResetToPrevStatus(t, i) ==
    /\ i \in 1..Len(scopes[t])
    /\ scopes[t][i].kind = "ScopedWaitStatus"
    /\ code' = ResetToPrevStatus(scopes[t][i])
    /\ UNCHANGED <<metadata, aux_info, tls, scopes>>

\* Mutant of ScopedWaitStatus_dtor: the restore is applied to the container
\* in the thread's slot at destruction, not to the one captured.
ScopedWaitStatus_dtor_current(t) ==
    /\ scopes[t] # <<>>
    /\ Top(t).kind = "ScopedWaitStatus"
    /\ code' = ResetToPrevStatus([Top(t) EXCEPT !.wait_state = CurrentWaitState(t)])
    /\ scopes' = Pop(t)
    /\ UNCHANGED <<metadata, aux_info, tls>>

\* ScopedWaitStatus::~ScopedWaitStatus: thread t's innermost guard, a
\* ScopedWaitStatus, leaves scope.
ScopedWaitStatus_dtor(t) ==
    /\ scopes[t] # <<>>
    /\ Top(t).kind = "ScopedWaitStatus"
    /\ code' = ResetToPrevStatus(Top(t))
    /\ scopes' = Pop(t)
    /\ UNCHANGED <<metadata, aux_info, tls>>

\* Mutant of UpdateMetadataFromPB: the converted message is assigned to the
\* container's metadata instead of merged into it.
UpdateMetadataFromPB_assign(t, pb) ==
    /\ metadata' = IF CurrentWaitState(t) # NullPtr
                   THEN [metadata EXCEPT ![CurrentWaitState(t)] = AUHMetadata_FromPB(pb)]
                   ELSE metadata
    /\ UNCHANGED <<code, aux_info, tls, scopes>>

\* WaitStateInfo::UpdateMetadataFromPB(pb) called on thread t.
UpdateMetadataFromPB(t, pb) ==
    /\ metadata' = IF CurrentWaitState(t) # NullPtr
                   THEN UpdateMetadata(CurrentWaitState(t), AUHMetadata_FromPB(pb))
                   ELSE metadata
    /\ UNCHANGED <<code, aux_info, tls, scopes>>

\* set_query_id(query_id) on container c (under its mutex_).
set_query_id(c, query_id) ==
    /\ metadata' = [metadata EXCEPT ![c].query_id = query_id]
    /\ UNCHANGED <<code, aux_info, tls, scopes>>

\* set_current_request_id(id) on container c (under its mutex_).
set_current_request_id(c, id) ==
    /\ metadata' = [metadata EXCEPT ![c].current_request_id = id]
    /\ UNCHANGED <<code, aux_info, tls, scopes>>

\* Mutant of set_top_level_request_id: the id is stored twice, not squared.
set_top_level_request_id_unsquared(c, id) ==
    /\ metadata' = [metadata EXCEPT ![c].top_level_request_id = <<id, id>>]
    /\ UNCHANGED <<code, aux_info, tls, scopes>>

\* set_top_level_request_id(id) on container c (under its mutex_).
set_top_level_request_id(c, id) ==
    /\ metadata' = [metadata EXCEPT ![c].top_level_request_id = <<id, U64Mul(id, id)>>]
    /\ UNCHANGED <<code, aux_info, tls, scopes>>

\* set_top_level_node_id(v) on container c (under its mutex_).
set_top_level_node_id(c, top_level_node_id) ==
    /\ metadata' = [metadata EXCEPT ![c].top_level_node_id = top_level_node_id]
    /\ UNCHANGED <<code, aux_info, tls, scopes>>

\* UpdateMetadata(meta) called on container c.
CallUpdateMetadata(c, meta) ==
    /\ metadata' = UpdateMetadata(c, meta)
    /\ UNCHANGED <<code, aux_info, tls, scopes>>

\* metadata().UpdateFromPB(pb) called on container c by a holder of its
\* mutex_.
CallUpdateFromPB(c, pb) ==
    /\ metadata' = [metadata EXCEPT ![c] = AUHMetadata_UpdateFromPB(@, pb)]
    /\ UNCHANGED <<code, aux_info, tls, scopes>>

\* UpdateAuxInfo(aux) called on container c.
CallUpdateAuxInfo(c, aux) ==
    /\ aux_info' = UpdateAuxInfo(c, aux)
    /\ UNCHANGED <<code, metadata, tls, scopes>>

(***************************************************************************)
(* Spec: threads calling the status and adoption operations in any order.  *)
(***************************************************************************)

\* After construction: every container default-constructed, every thread's
\* slot empty, no guard alive.
Init ==
    /\ code = [c \in Containers |-> Unused]
    /\ metadata = [c \in Containers |-> DefaultMetadata]
    /\ aux_info = [c \in Containers |-> DefaultAuxInfo]
    /\ tls = [t \in Threads |-> NullPtr]
    /\ scopes = [t \in Threads |-> <<>>]
    /\ initial_code = code
    /\ initial_tls = tls
    /\ adopted = [t \in Threads |-> <<>>]
    /\ reset_called = [t \in Threads |-> <<>>]
    /\ IdleSteps

Next ==
    \/ \E t \in GuardThreads, p \in Ptrs :
        CallSetCurrentWaitState(t, p) /\ UNCHANGED idle
    \/ \E p \in Ptrs, x \in Codes :
        SET_WAIT_STATUS_TO(p, x) /\ UNCHANGED idle
    \/ \E t \in Threads, x \in Codes :
        SET_WAIT_STATUS(t, x) /\ UNCHANGED idle
    \/ \E t \in GuardThreads, p \in Ptrs :
        /\ Len(scopes[t]) < MaxDepth
        /\ SCOPED_ADOPT_WAIT_STATE(t, p)
        /\ UNCHANGED idle
    \/ \E t \in GuardThreads :
        ScopedWaitState_dtor(t) /\ UNCHANGED idle
    \/ \E t \in GuardThreads, p \in Ptrs, x \in Codes :
        /\ Len(scopes[t]) < MaxDepth
        /\ SCOPED_WAIT_STATUS_FOR(t, p, x)
        /\ UNCHANGED idle
    \/ \E t \in GuardThreads, x \in Codes :
        /\ Len(scopes[t]) < MaxDepth
        /\ SCOPED_WAIT_STATUS(t, x)
        /\ UNCHANGED idle
    \/ \E t \in GuardThreads, i \in 1..MaxDepth :
        CallResetToPrevStatus(t, i) /\ UNCHANGED idle
    \/ \E t \in GuardThreads :
        ScopedWaitStatus_dtor(t) /\ UNCHANGED idle

Spec == Init /\ [][Next]_vars

\* A step in which thread t's innermost guard, a ScopedWaitStatus, leaves
\* scope.
StatusDtorStep(t) ==
    /\ scopes[t] # <<>>
    /\ Top(t).kind = "ScopedWaitStatus"
    /\ scopes'[t] = SubSeq(scopes[t], 1, Len(scopes[t]) - 1)

\* Compare-and-restore of guard g over a step: the target's code becomes
\* g's previous code if it was the code g set, and stays as it was if not;
\* no other container's code changes.
ComparedAndRestored(g) ==
    code' = [code EXCEPT ![g.wait_state] =
                IF @ = g.state THEN g.prev_state ELSE @]

\* C2: when a status guard with a non-empty target is destroyed, or
\* ResetToPrevStatus() is called on it, the target's code becomes the
\* guard's captured previous code if the code then equals the code the
\* guard set, and is left as it is (a code S3 written directly in between
\* stays S3) if not.
C2_CompareAndRestore ==
    [][\A t \in GuardThreads :
          /\ (StatusDtorStep(t) /\ Top(t).wait_state # NullPtr)
                => ComparedAndRestored(Top(t))
          /\ \A i \in 1..Len(scopes[t]) :
                (CallResetToPrevStatus(t, i) /\ scopes[t][i].wait_state # NullPtr)
                    => ComparedAndRestored(scopes[t][i])]_vars

\* A live guard whose target was written directly since: the code is
\* neither the code the guard set nor the code it captured.
C2_Witness ==
    \E t \in GuardThreads :
        /\ scopes[t] # <<>>
        /\ Top(t).kind = "ScopedWaitStatus"
        /\ Top(t).wait_state # NullPtr
        /\ get_state(Top(t).wait_state) # Top(t).state
        /\ get_state(Top(t).wait_state) # Top(t).prev_state
        /\ Top(t).state # Top(t).prev_state

\* A step in which a ScopedWaitState enters scope on thread t.
AdoptCtorStep(t) ==
    /\ Len(scopes'[t]) = Len(scopes[t]) + 1
    /\ scopes'[t][Len(scopes'[t])].kind = "ScopedWaitState"

\* A step in which thread t's innermost guard, a ScopedWaitState, leaves
\* scope.
AdoptDtorStep(t) ==
    /\ scopes[t] # <<>>
    /\ Top(t).kind = "ScopedWaitState"
    /\ scopes'[t] = SubSeq(scopes[t], 1, Len(scopes[t]) - 1)

\* C4: a ScopedWaitState captures the slot's value when it is constructed,
\* no later step changes what a live guard captured, and its destructor
\* writes that value back, whatever SetCurrentWaitState calls and nested
\* guards changed the slot in between.
C4_AdoptRestoreUnconditional ==
    [][\A t \in Threads :
          /\ AdoptCtorStep(t)
                => scopes'[t][Len(scopes'[t])].prev_state = CurrentWaitState(t)
          /\ \A i \in 1..Len(scopes[t]) :
                i <= Len(scopes'[t]) => scopes'[t][i] = scopes[t][i]
          /\ AdoptDtorStep(t)
                => CurrentWaitState(t)' = Top(t).prev_state]_vars

\* A live ScopedWaitState with another guard nested in it, and the slot
\* holding something else than the outer guard captured.
C4_Witness ==
    \E t \in Threads :
        /\ Len(scopes[t]) = 2
        /\ scopes[t][1].kind = "ScopedWaitState"
        /\ scopes[t][2].kind = "ScopedWaitState"
        /\ scopes[t][1].prev_state = "c1"
        /\ scopes[t][2].prev_state = NullPtr
        /\ CurrentWaitState(t) = "c2"

\* C7: a step that is set_state(x) on container c leaves get_state(c) = x,
\* for whichever thread calls it next, and get_state(c) changes in no step
\* that writes no code.
C7_CodeVisibility ==
    [][\A c \in Containers :
          /\ \A x \in Codes : code' = set_state(c, x) => get_state(c)' = x
          /\ code' = code => get_state(c)' = get_state(c)]_vars

\* Both containers hold a code written by set_state.
C7_Witness == get_state("c1") = 1 /\ get_state("c2") = 2

(***************************************************************************)
(* SpecStatus: the status operations and the merge from a message, on a    *)
(* thread that sets its slot by hand and on one that never has a current   *)
(* wait state.                                                             *)
(***************************************************************************)

\* The messages UpdateMetadataFromPB receives in SpecStatus.
SomePBs ==
    {AUHMetadata_ToPB([DefaultMetadata EXCEPT !.query_id = 1], EmptyMetadataPB)}

NextStatus ==
    \/ \E t \in GuardThreads, p \in Ptrs :
        CallSetCurrentWaitState(t, p) /\ UNCHANGED idle
    \/ \E p \in Ptrs, x \in Codes :
        SET_WAIT_STATUS_TO(p, x) /\ UNCHANGED idle
    \/ \E t \in Threads, x \in Codes :
        SET_WAIT_STATUS(t, x) /\ UNCHANGED idle
    \/ \E t \in Threads, pb \in SomePBs :
        UpdateMetadataFromPB(t, pb) /\ UNCHANGED idle
    \/ \E t \in GuardThreads, p \in Ptrs, x \in Codes :
        /\ Len(scopes[t]) < MaxStatusDepth
        /\ SCOPED_WAIT_STATUS_FOR(t, p, x)
        /\ UNCHANGED idle
    \/ \E t \in GuardThreads, x \in Codes :
        /\ Len(scopes[t]) < MaxStatusDepth
        /\ SCOPED_WAIT_STATUS(t, x)
        /\ UNCHANGED idle
    \/ \E t \in GuardThreads, i \in 1..MaxStatusDepth :
        CallResetToPrevStatus(t, i) /\ UNCHANGED idle
    \/ \E t \in GuardThreads :
        ScopedWaitStatus_dtor(t) /\ UNCHANGED idle

SpecStatus == Init /\ [][NextStatus]_vars

\* The containers' contents.
contents == <<code, metadata, aux_info>>

\* C6: on a thread whose slot is empty, CurrentWaitState() is empty, and
\* SET_WAIT_STATUS, a ScopedWaitStatus(code) (its construction, which binds
\* it to the empty target, then ResetToPrevStatus and its destruction) and
\* UpdateMetadataFromPB change no container's code, metadata or aux info;
\* nor does a ScopedWaitStatus built on an explicitly empty target.
C6_NoCurrentWaitStateIsNoOp ==
    [][\A t \in Threads :
          /\ tls[t] = NullPtr =>
                /\ CurrentWaitState(t) = NullPtr
                /\ (\E x \in Codes : SET_WAIT_STATUS(t, x))
                        => UNCHANGED contents
                /\ (\E x \in Codes : SCOPED_WAIT_STATUS(t, x))
                        => /\ UNCHANGED contents
                           /\ scopes'[t][Len(scopes'[t])].wait_state = NullPtr
                /\ (\E pb \in SomePBs : UpdateMetadataFromPB(t, pb))
                        => UNCHANGED contents
          /\ (\E x \in Codes : SCOPED_WAIT_STATUS_FOR(t, NullPtr, x))
                => UNCHANGED contents
          /\ (StatusDtorStep(t) /\ Top(t).wait_state = NullPtr)
                => UNCHANGED contents
          /\ \A i \in 1..Len(scopes[t]) :
                (CallResetToPrevStatus(t, i) /\ scopes[t][i].wait_state = NullPtr)
                    => UNCHANGED contents]_vars

\* A thread with an empty slot holds a guard built on the empty target,
\* while the containers hold codes and metadata written through pointers.
C6_Witness ==
    \E t \in Threads :
        /\ tls[t] = NullPtr
        /\ scopes[t] # <<>>
        /\ Top(t).kind = "ScopedWaitStatus"
        /\ Top(t).wait_state = NullPtr
        /\ Top(t).state = 2
        /\ code["c1"] = 1
        /\ metadata["c2"].query_id = 1

(***************************************************************************)
(* SpecNested: properly nested guards and no other writer.  From any codes *)
(* and any slot values, a thread only opens scoped guards and closes them  *)
(* innermost first.                                                        *)
(***************************************************************************)

InitNested ==
    /\ code \in [Containers -> Codes]
    /\ metadata = [c \in Containers |-> DefaultMetadata]
    /\ aux_info = [c \in Containers |-> DefaultAuxInfo]
    /\ tls \in [Threads -> Ptrs]
    /\ scopes = [t \in Threads |-> <<>>]
    /\ initial_code = code
    /\ initial_tls = tls
    /\ adopted = [t \in Threads |-> <<>>]
    /\ reset_called = [t \in Threads |-> <<>>]
    /\ IdleSteps

NextNested ==
    \/ \E t \in GuardThreads, p \in Ptrs :
        /\ Len(scopes[t]) < MaxDepth
        /\ SCOPED_ADOPT_WAIT_STATE(t, p)
        /\ adopted' = [adopted EXCEPT ![t] = Append(@, p)]
        /\ UNCHANGED <<steps, initial_code, initial_tls, reset_called, snap, whole>>
    \/ \E t \in GuardThreads :
        /\ ScopedWaitState_dtor(t)
        /\ adopted' = [adopted EXCEPT ![t] = SubSeq(@, 1, Len(@) - 1)]
        /\ UNCHANGED <<steps, initial_code, initial_tls, reset_called, snap, whole>>
    \/ \E t \in GuardThreads, p \in Ptrs, x \in Codes :
        /\ Len(scopes[t]) < MaxDepth
        /\ SCOPED_WAIT_STATUS_FOR(t, p, x)
        /\ UNCHANGED idle
    \/ \E t \in GuardThreads, x \in Codes :
        /\ Len(scopes[t]) < MaxDepth
        /\ SCOPED_WAIT_STATUS(t, x)
        /\ UNCHANGED idle
    \/ \E t \in GuardThreads :
        ScopedWaitStatus_dtor(t) /\ UNCHANGED idle

SpecNested == InitNested /\ [][NextNested]_vars

\* The ScopedWaitStatus guards of thread t that target container c, oldest
\* first.
StatusGuardsOn(t, c) ==
    SelectSeq(scopes[t],
              LAMBDA g : g.kind = "ScopedWaitStatus" /\ g.wait_state = c)

\* C1: with status guards G1..Gn on a container constructed in order and
\* destroyed in reverse, and no other writer, the container's code is the
\* code Sn of the innermost live guard, each live guard Gk holds S(k-1) as
\* its previous code, and with no guard left the code is the starting S0.
\* So destroying Gk leaves S(k-1), and destroying G1 leaves S0.
C1_StatusGuardsRestoreLIFO ==
    \A t \in GuardThreads, c \in Containers :
        LET gs == StatusGuardsOn(t, c)
            below(k) == IF k = 1 THEN initial_code[c] ELSE gs[k - 1].state
        IN /\ code[c] = IF gs = <<>> THEN initial_code[c] ELSE gs[Len(gs)].state
           /\ \A k \in 1..Len(gs) : gs[k].prev_state = below(k)

\* Two nested status guards on one container, all three codes different.
C1_Witness ==
    \E t \in GuardThreads, c \in Containers :
        LET gs == StatusGuardsOn(t, c)
        IN /\ Len(gs) = 2
           /\ gs[1].state # initial_code[c]
           /\ gs[2].state # gs[1].state
           /\ gs[2].state # initial_code[c]
           /\ code[c] = gs[2].state

\* The ScopedWaitState guards of thread t, oldest first.
AdoptGuards(t) ==
    SelectSeq(scopes[t], LAMBDA g : g.kind = "ScopedWaitState")

\* C3: with adoption guards nested on a thread and no other writer of its
\* slot, CurrentWaitState() is the container the innermost live guard
\* adopted, each live guard holds what the guard under it adopted (the
\* starting slot value for the outermost), and with no guard left the slot
\* holds its starting value, whatever that was.
C3_AdoptGuardsRestoreLIFO ==
    \A t \in GuardThreads :
        LET gs == AdoptGuards(t)
            below(k) == IF k = 1 THEN initial_tls[t] ELSE adopted[t][k - 1]
        IN /\ Len(adopted[t]) = Len(gs)
           /\ CurrentWaitState(t) =
                IF gs = <<>> THEN initial_tls[t] ELSE adopted[t][Len(gs)]
           /\ \A k \in 1..Len(gs) : gs[k].prev_state = below(k)

\* ScopedWaitState(C1) then ScopedWaitState(C2) from an empty slot.
C3_Witness ==
    \E t \in GuardThreads :
        /\ initial_tls[t] = NullPtr
        /\ Len(scopes[t]) = 2
        /\ adopted[t] = <<"c1", "c2">>
        /\ CurrentWaitState(t) = "c2"
        /\ scopes[t][2].prev_state = "c1"
        /\ scopes[t][1].prev_state = NullPtr

(***************************************************************************)
(* SpecReset: status guards that are also reset by hand, with direct code  *)
(* writes in between.  reset_called records, per live guard, whether       *)
(* ResetToPrevStatus() has been called on it by hand.                      *)
(***************************************************************************)

NextReset ==
    \/ \E t \in GuardThreads, p \in Ptrs, x \in Codes :
        /\ Len(scopes[t]) < MaxDepth
        /\ SCOPED_WAIT_STATUS_FOR(t, p, x)
        /\ reset_called' = [reset_called EXCEPT ![t] = Append(@, FALSE)]
        /\ UNCHANGED <<steps, initial_code, initial_tls, adopted, snap, whole>>
    \/ \E t \in GuardThreads, i \in 1..MaxDepth :
        /\ CallResetToPrevStatus(t, i)
        /\ reset_called' = [reset_called EXCEPT ![t][i] = TRUE]
        /\ UNCHANGED <<steps, initial_code, initial_tls, adopted, snap, whole>>
    \/ \E t \in GuardThreads :
        /\ ScopedWaitStatus_dtor(t)
        /\ reset_called' = [reset_called EXCEPT ![t] = SubSeq(@, 1, Len(@) - 1)]
        /\ UNCHANGED <<steps, initial_code, initial_tls, adopted, snap, whole>>
    \/ \E p \in Ptrs, x \in Codes :
        SET_WAIT_STATUS_TO(p, x) /\ UNCHANGED idle

SpecReset == Init /\ [][NextReset]_vars

\* C5: once ResetToPrevStatus() has been called by hand on a ScopedWaitStatus
\* guard, every later ResetToPrevStatus() on it and its destructor leave
\* every container's code unchanged, whatever was written in between.
C5_ManualResetIdempotent ==
    [][\A t \in GuardThreads :
          /\ (StatusDtorStep(t) /\ reset_called[t][Len(scopes[t])])
                => code' = code
          /\ \A i \in 1..Len(scopes[t]) :
                (CallResetToPrevStatus(t, i) /\ reset_called[t][i])
                    => code' = code]_vars

(***************************************************************************)
(* SpecData: the metadata and aux info of a container that is the current  *)
(* wait state of one thread, under the merges, the setters and the merge   *)
(* from a message, in any order.                                           *)
(***************************************************************************)

\* The containers written in SpecData.
DataContainers == {"c1"}

\* The messages UpdateMetadataFromPB receives in SpecData: what ToPB writes
\* for each metadata value, a message carrying an explicit zero, one
\* carrying a lone id, and two whose port does not fit in 16 bits.
DataPBs ==
    {AUHMetadata_ToPB(m, EmptyMetadataPB) : m \in AUHMetadata}
        \cup {[EmptyMetadataPB EXCEPT !.query_id = Present(0)],
              [EmptyMetadataPB EXCEPT !.top_level_node_id = <<U64(1)>>],
              [EmptyMetadataPB EXCEPT !.client_node_port = Present(65536)],
              [EmptyMetadataPB EXCEPT !.client_node_port = Present(65537)]}

InitData ==
    /\ code = [c \in Containers |-> Unused]
    /\ metadata = [c \in Containers |-> DefaultMetadata]
    /\ aux_info = [c \in Containers |-> DefaultAuxInfo]
    /\ tls = [t \in Threads |-> IF t \in GuardThreads THEN "c1" ELSE NullPtr]
    /\ scopes = [t \in Threads |-> <<>>]
    /\ initial_code = code
    /\ initial_tls = tls
    /\ adopted = [t \in Threads |-> <<>>]
    /\ reset_called = [t \in Threads |-> <<>>]
    /\ IdleSteps

NextData ==
    \/ \E c \in DataContainers, meta \in AUHMetadata :
        CallUpdateMetadata(c, meta) /\ UNCHANGED idle
    \/ \E c \in DataContainers, aux \in AUHAuxInfo :
        CallUpdateAuxInfo(c, aux) /\ UNCHANGED idle
    \/ \E c \in DataContainers, query_id \in QueryIdValues :
        set_query_id(c, query_id) /\ UNCHANGED idle
    \/ \E c \in DataContainers, id \in RequestIdValues :
        set_current_request_id(c, id) /\ UNCHANGED idle
    \/ \E c \in DataContainers, id \in SmallIds :
        set_top_level_request_id(c, id) /\ UNCHANGED idle
    \/ \E c \in DataContainers, v \in VecValues :
        set_top_level_node_id(c, v) /\ UNCHANGED idle
    \/ \E t \in Threads, pb \in DataPBs :
        UpdateMetadataFromPB(t, pb) /\ UNCHANGED idle

SpecData == InitData /\ [][NextData]_vars

\* The unset value of a metadata field: the empty vector or zero.
MetaBlank(f) ==
    IF f \in {"top_level_request_id", "top_level_node_id"} THEN <<>> ELSE 0

\* C8: for the metadata A a container holds and every B, after
\* A.UpdateFrom(B) each field equals B's where B's is set (non-empty vector,
\* non-zero integer) and A's prior value where it is not; likewise for aux
\* info with set meaning non-empty string; and UpdateMetadata(B) and
\* UpdateAuxInfo(B) leave exactly that in the container's records and leave
\* the other containers' records alone.
C8_FillBlanksMerge ==
    \A c \in DataContainers :
        /\ \A B \in AUHMetadata :
              LET A == metadata[c]
                  R == AUHMetadata_UpdateFrom(A, B)
                  U == UpdateMetadata(c, B)
              IN /\ \A f \in MetaFields :
                        /\ R[f] = IF B[f] # MetaBlank(f) THEN B[f] ELSE A[f]
                        /\ U[c][f] = IF B[f] # MetaBlank(f) THEN B[f] ELSE A[f]
                 /\ \A d \in Containers \ {c} : U[d] = metadata[d]
        /\ \A B \in AUHAuxInfo :
              LET A == aux_info[c]
                  R == AUHAuxInfo_UpdateFrom(A, B)
                  U == UpdateAuxInfo(c, B)
              IN /\ \A f \in AuxFields :
                        /\ R[f] = IF B[f] # "" THEN B[f] ELSE A[f]
                        /\ U[c][f] = IF B[f] # "" THEN B[f] ELSE A[f]
                 /\ \A d \in Containers \ {c} : U[d] = aux_info[d]

\* The container holds a host (which only a merge writes) next to a blank
\* port, and a method next to a blank tablet id: merges have filled some
\* fields and kept others.
C8_Witness ==
    /\ metadata["c1"].client_node_host = 1
    /\ metadata["c1"].client_node_port = 0
    /\ metadata["c1"].query_id = -1
    /\ aux_info["c1"].method = "a"
    /\ aux_info["c1"].tablet_id = ""

\* C9: for the metadata A a container holds, A.UpdateFrom(A) is A, and for
\* every B, A.UpdateFrom(B) applied twice gives what applying it once gives;
\* likewise for aux info.
C9_IdempotentMerge ==
    \A c \in DataContainers :
        /\ AUHMetadata_UpdateFrom(metadata[c], metadata[c]) = metadata[c]
        /\ \A B \in AUHMetadata :
              LET once == AUHMetadata_UpdateFrom(metadata[c], B)
              IN AUHMetadata_UpdateFrom(once, B) = once
        /\ AUHAuxInfo_UpdateFrom(aux_info[c], aux_info[c]) = aux_info[c]
        /\ \A B \in AUHAuxInfo :
              LET once == AUHAuxInfo_UpdateFrom(aux_info[c], B)
              IN AUHAuxInfo_UpdateFrom(once, B) = once

\* The container holds metadata and aux info with every field set, the node
\* id three elements long.
C9_Witness ==
    /\ \A f \in MetaFields : metadata["c1"][f] # MetaBlank(f)
    /\ Len(metadata["c1"].top_level_node_id) = 3
    /\ \A f \in AuxFields : aux_info["c1"][f] # ""

\* M written to a fresh message and read back.
MetadataRoundTrip(M) == AUHMetadata_FromPB(AUHMetadata_ToPB(M, EmptyMetadataPB))

\* X written to a fresh message and read back.
AuxInfoRoundTrip(X) == AUHAuxInfo_FromPB(AUHAuxInfo_ToPB(X, EmptyAuxInfoPB))

\* C10 as stated: every metadata M a container holds is reproduced by
\* FromPB of M.ToPB, a zero-valued M with no field written, and every aux
\* info X is reproduced by FromPB of X.ToPB.
C10_WireRoundTrip_Every ==
    \A c \in DataContainers :
        /\ MetadataRoundTrip(metadata[c]) = metadata[c]
        /\ metadata[c] = DefaultMetadata
              => AUHMetadata_ToPB(metadata[c], EmptyMetadataPB) = EmptyMetadataPB
        /\ AuxInfoRoundTrip(aux_info[c]) = aux_info[c]

\* C10 amended: a metadata M whose top_level_request_id and
\* top_level_node_id are each empty or exactly two elements long is
\* reproduced by FromPB of M.ToPB, a zero-valued M with no field written;
\* an id vector of any other length is not written and comes back empty,
\* the other fields still reproduced; every aux info X is reproduced by
\* FromPB of X.ToPB.
C10_WireRoundTrip ==
    \A c \in DataContainers :
        LET M == metadata[c]
            Kept(v) == IF Len(v) = 2 THEN v ELSE <<>>
        IN /\ (Len(M.top_level_request_id) \in {0, 2}
                    /\ Len(M.top_level_node_id) \in {0, 2})
                 => MetadataRoundTrip(M) = M
           /\ MetadataRoundTrip(M) =
                 [M EXCEPT !.top_level_request_id = Kept(@),
                           !.top_level_node_id = Kept(@)]
           /\ M = DefaultMetadata
                 => AUHMetadata_ToPB(M, EmptyMetadataPB) = EmptyMetadataPB
           /\ AuxInfoRoundTrip(aux_info[c]) = aux_info[c]

\* The container holds a fully populated metadata, both id vectors two
\* elements long and different, and a fully populated aux info.
C10_Witness ==
    /\ metadata["c1"].top_level_request_id = <<U64(1), U64(1)>>
    /\ metadata["c1"].top_level_node_id = <<U64(2), U64(1)>>
    /\ metadata["c1"].query_id = -1
    /\ metadata["c1"].current_request_id = 1
    /\ metadata["c1"].client_node_host = 1
    /\ metadata["c1"].client_node_port = 1
    /\ aux_info["c1"] = [tablet_id |-> "a", table_id |-> "a", method |-> "a"]

\* The metadata fields that hold integers.
MetaIntFields ==
    {"query_id", "current_request_id", "client_node_host", "client_node_port"}

\* C11: in the message WaitStateInfo::ToPB writes for a container, every
\* metadata field and every aux info field whose value is zero or empty is
\* absent, and every field whose value is set is present with that value.
C11_OmissionOnWrite ==
    \A c \in DataContainers :
        LET pb == WaitStateInfo_ToPB(c, EmptyWaitStatePB)
        IN /\ \A f \in MetaIntFields :
                 pb.metadata[f] =
                    IF metadata[c][f] = 0 THEN NoInt ELSE Present(metadata[c][f])
           /\ \A f \in MetaFields \ MetaIntFields :
                 pb.metadata[f] = metadata[c][f]
           /\ \A f \in AuxFields :
                 pb.aux_info[f] =
                    IF aux_info[c][f] = "" THEN NoStr ELSE Present(aux_info[c][f])

(***************************************************************************)
(* SpecReadMerge: a container constructed with any metadata                *)
(* (WaitStateInfo(AUHMetadata)), whose metadata is then merged from        *)
(* messages with UpdateFromPB.                                             *)
(***************************************************************************)

InitReadMerge ==
    /\ code = [c \in Containers |-> Unused]
    /\ metadata \in
          {[c \in Containers |-> IF c \in DataContainers THEN m ELSE DefaultMetadata] :
              m \in AUHMetadata}
    /\ aux_info = [c \in Containers |-> DefaultAuxInfo]
    /\ tls = [t \in Threads |-> NullPtr]
    /\ scopes = [t \in Threads |-> <<>>]
    /\ initial_code = code
    /\ initial_tls = tls
    /\ adopted = [t \in Threads |-> <<>>]
    /\ reset_called = [t \in Threads |-> <<>>]
    /\ IdleSteps

NextReadMerge ==
    \E c \in DataContainers, pb \in DataPBs :
        CallUpdateFromPB(c, pb) /\ UNCHANGED idle

SpecReadMerge == InitReadMerge /\ [][NextReadMerge]_vars

\* The value of field f that message pb carries, as its getter returns it.
Incoming(pb, f) == IF f \in MetaIntFields THEN GetInt(pb[f]) ELSE pb[f]

\* C12: for the metadata A a container holds and every message pb, after
\* A.UpdateFromPB(pb) each field whose incoming value is zero or empty,
\* absent or present, equals A's prior value, and each field whose incoming
\* value is set equals the incoming value.
C12_ReadMergeLeavesExisting ==
    \A c \in DataContainers, pb \in DataPBs :
        LET A == metadata[c]
            R == AUHMetadata_UpdateFromPB(A, pb)
        IN \A f \in MetaFields :
              R[f] = IF Incoming(pb, f) = MetaBlank(f)
                     THEN A[f] ELSE Incoming(pb, f)

(***************************************************************************)
(* SpecFromPB: a thread that moves its slot between the containers and     *)
(* empty, and merges messages into its current wait state; another thread  *)
(* that never has one does the same.                                       *)
(***************************************************************************)

\* The messages UpdateMetadataFromPB receives in SpecFromPB: nothing set,
\* one field set, everything set, an explicit zero, a lone id, and ports
\* that do not fit in 16 bits.
FromPBs ==
    {EmptyMetadataPB,
     [EmptyMetadataPB EXCEPT !.query_id = Present(-1)],
     [EmptyMetadataPB EXCEPT !.query_id = Present(0)],
     [EmptyMetadataPB EXCEPT !.current_request_id = Present(1)],
     [EmptyMetadataPB EXCEPT !.client_node_host = Present(1)],
     [EmptyMetadataPB EXCEPT !.client_node_port = Present(2)],
     [EmptyMetadataPB EXCEPT !.client_node_port = Present(65536)],
     [EmptyMetadataPB EXCEPT !.client_node_port = Present(65537)],
     [EmptyMetadataPB EXCEPT !.top_level_request_id = <<U64(1), U64(2)>>],
     [EmptyMetadataPB EXCEPT !.top_level_node_id = <<U64(1)>>],
     [top_level_request_id |-> <<U64(2), U64(1)>>,
      top_level_node_id |-> <<U64(1), U64(2)>>,
      query_id |-> Present(1),
      current_request_id |-> Present(1),
      client_node_host |-> Present(1),
      client_node_port |-> Present(1)]}

InitFromPB ==
    /\ code = [c \in Containers |-> IF c = "c1" THEN 1 ELSE 2]
    /\ metadata = [c \in Containers |-> DefaultMetadata]
    /\ aux_info = [c \in Containers |->
                      IF c = "c1" THEN [DefaultAuxInfo EXCEPT !.method = "a"]
                      ELSE DefaultAuxInfo]
    /\ tls = [t \in Threads |-> NullPtr]
    /\ scopes = [t \in Threads |-> <<>>]
    /\ initial_code = code
    /\ initial_tls = tls
    /\ adopted = [t \in Threads |-> <<>>]
    /\ reset_called = [t \in Threads |-> <<>>]
    /\ IdleSteps

NextFromPB ==
    \/ \E t \in GuardThreads, p \in Ptrs :
        CallSetCurrentWaitState(t, p) /\ UNCHANGED idle
    \/ \E t \in Threads, pb \in FromPBs :
        UpdateMetadataFromPB(t, pb) /\ UNCHANGED idle

SpecFromPB == InitFromPB /\ [][NextFromPB]_vars

\* The value of field f that message pb carries, as AUHMetadata holds it:
\* the port narrowed to 16 bits.
Narrowed(pb, f) ==
    IF f = "client_node_port" THEN Incoming(pb, f) % 65536 ELSE Incoming(pb, f)

\* What a step that is UpdateMetadataFromPB(pb) on thread t does, the fields
\* merged being those for which Carried(pb, f) is set: on the thread's
\* current wait state C exactly those metadata fields change, to
\* Carried(pb, f); C's code and aux info and every other container stay as
\* they are; with no current wait state nothing changes.
MergesFromPB(t, pb, Carried(_, _)) ==
    LET C == CurrentWaitState(t)
    IN /\ UNCHANGED <<code, aux_info, tls, scopes>>
       /\ C = NullPtr => UNCHANGED metadata
       /\ C # NullPtr =>
            /\ \A f \in MetaFields :
                  metadata'[C][f] = IF Carried(pb, f) # MetaBlank(f)
                                    THEN Carried(pb, f) ELSE metadata[C][f]
            /\ \A d \in Containers \ {C} : metadata'[d] = metadata[d]

\* C13 as stated: UpdateMetadataFromPB(pb) changes exactly the metadata
\* fields of the thread's current wait state for which pb carries a set
\* value, to pb's value, and nothing else; nothing at all on a thread with no
\* current wait state.
C13_MergeFromPB_PbValue ==
    [][\A t \in Threads, pb \in FromPBs :
          UpdateMetadataFromPB(t, pb) => MergesFromPB(t, pb, Incoming)]_vars

\* C13 amended: the same with client_node_port taken modulo 2^16, as
\* AUHMetadata::FromPB narrows it: a port that is a multiple of 65536 counts
\* as unset, any other is stored narrowed.
C13_MergeFromPB ==
    [][\A t \in Threads, pb \in FromPBs :
          UpdateMetadataFromPB(t, pb) => MergesFromPB(t, pb, Narrowed)]_vars

\* The thread's current wait state c2 holds merged fields next to blank
\* ones, while c1, merged into earlier, holds a port that came narrowed.
C13_Witness ==
    /\ CurrentWaitState("t1") = "c2"
    /\ metadata["c2"].query_id = -1
    /\ metadata["c2"].top_level_request_id = <<U64(1), U64(2)>>
    /\ metadata["c2"].client_node_host = 0
    /\ metadata["c1"].client_node_port = 1
    /\ metadata["c1"].query_id = 0

(***************************************************************************)
(* SpecSetters: the field setters on a container, in any order, the        *)
(* request ids covering products that do and do not fit in 64 bits.        *)
(***************************************************************************)

\* 2^32.
TwoTo32 == U64Shifted(1, 5)

\* 2^64 - 1.
MaxUint64 == [i \in 1..NumLimbs |-> LimbBase - 1]

\* The ids set_top_level_request_id is called with in SpecSetters: 0, 1, 5,
\* 255, 2^32, 2^32 + 1, 2^63 and 2^64 - 1.
WideIds ==
    {U64(0), U64(1), U64(5), U64(255), TwoTo32, U64Or(TwoTo32, U64(1)),
     U64Shifted(128, NumLimbs), MaxUint64}

NextSetters ==
    \/ \E c \in DataContainers, id \in WideIds :
        set_top_level_request_id(c, id) /\ UNCHANGED idle
    \/ \E c \in DataContainers, v \in VecValues :
        set_top_level_node_id(c, v) /\ UNCHANGED idle
    \/ \E c \in DataContainers, query_id \in QueryIdValues :
        set_query_id(c, query_id) /\ UNCHANGED idle
    \/ \E c \in DataContainers, id \in RequestIdValues :
        set_current_request_id(c, id) /\ UNCHANGED idle

SpecSetters == Init /\ [][NextSetters]_vars

\* C14: a step that is set_top_level_request_id(x) leaves the pair
\* (x, x*x) as the container's top_level_request_id, the product taken
\* modulo 2^64 (5 gives 25, 255 gives 65025, 2^32 gives 0, 2^32 + 1 gives
\* 2^33 + 1, 2^64 - 1 gives 1), whatever was there before, and changes no
\* other metadata field and nothing else.
C14_TopLevelRequestIdDerivation ==
    [][\A c \in DataContainers, x \in WideIds :
          set_top_level_request_id(c, x) =>
            LET stored == metadata'[c].top_level_request_id
            IN /\ Len(stored) = 2
               /\ stored[1] = x
               /\ stored[2] = U64Mul(x, x)
               /\ x = U64(5) => stored[2] = U64(25)
               /\ x = U64(255) => stored[2] = U64Or(U64(1), U64Shifted(254, 2))
               /\ x = TwoTo32 => stored[2] = U64(0)
               /\ x = U64Or(TwoTo32, U64(1))
                     => stored[2] = U64Or(U64Shifted(2, 5), U64(1))
               /\ x = MaxUint64 => stored[2] = U64(1)
               /\ \A f \in MetaFields \ {"top_level_request_id"} :
                     metadata'[c][f] = metadata[c][f]
               /\ \A d \in Containers \ {c} : metadata'[d] = metadata[d]
               /\ UNCHANGED <<code, aux_info, tls, scopes>>]_vars

\* The container holds the pair for 2^64 - 1, whose square wraps to 1, next
\* to the other fields set earlier.
C14_Witness ==
    /\ metadata["c1"].top_level_request_id = <<MaxUint64, U64(1)>>
    /\ metadata["c1"].top_level_node_id = Vec(3)
    /\ metadata["c1"].query_id = -1
    /\ metadata["c1"].current_request_id = 1

(***************************************************************************)
(* SpecRace: status guards and direct code writes on every thread, each    *)
(* access to the atomic code_ a step of its own.  The constructor reads    *)
(* the code and then stores; ResetToPrevStatus reads and compares, and     *)
(* then stores.                                                            *)
(***************************************************************************)

\* ScopedWaitStatus::ScopedWaitStatus on thread t as far as
\* prev_state_ = wait_state_->get_state(); with an empty target the
\* constructor is over.
ScopedWaitStatus_ctor_get_state(t, ptr, state) ==
    /\ pc[t] = Idle
    /\ IF ptr # NullPtr
       THEN /\ pc' = [pc EXCEPT ![t] =
                        [op |-> "ctor", guard |-> ScopedWaitStatus_ctor(ptr, state)]]
            /\ scopes' = scopes
       ELSE /\ scopes' = Push(t, ScopedWaitStatus_ctor(ptr, state))
            /\ pc' = pc
    /\ UNCHANGED <<code, metadata, aux_info, tls, mutex, pb_out>>

\* The rest of the constructor: wait_state_->set_state(state_).
ScopedWaitStatus_ctor_set_state(t) ==
    /\ pc[t].op = "ctor"
    /\ code' = set_state(pc[t].guard.wait_state, pc[t].guard.state)
    /\ scopes' = Push(t, pc[t].guard)
    /\ pc' = [pc EXCEPT ![t] = Idle]
    /\ UNCHANGED <<metadata, aux_info, tls, mutex, pb_out>>

\* ResetToPrevStatus() on the i-th guard of thread t, called by hand or (the
\* guard leaving scope) by its destructor, as far as the test
\* wait_state_ && wait_state_->get_state() == state_; when the test fails
\* the call is over.
ResetToPrevStatus_get_state(t, i, leaving) ==
    /\ pc[t] = Idle
    /\ i \in 1..Len(scopes[t])
    /\ leaving => i = Len(scopes[t])
    /\ scopes[t][i].kind = "ScopedWaitStatus"
    /\ LET g == scopes[t][i]
       IN IF g.wait_state # NullPtr /\ get_state(g.wait_state) = g.state
          THEN /\ pc' = [pc EXCEPT ![t] =
                           [op |-> "restore", guard |-> g, leaving |-> leaving]]
               /\ scopes' = scopes
          ELSE /\ pc' = pc
               /\ scopes' = IF leaving THEN Pop(t) ELSE scopes
    /\ UNCHANGED <<code, metadata, aux_info, tls, mutex, pb_out>>

\* The rest of ResetToPrevStatus(): wait_state_->set_state(prev_state_).
ResetToPrevStatus_set_state(t) ==
    /\ pc[t].op = "restore"
    /\ code' = set_state(pc[t].guard.wait_state, pc[t].guard.prev_state)
    /\ scopes' = IF pc[t].leaving THEN Pop(t) ELSE scopes
    /\ pc' = [pc EXCEPT ![t] = Idle]
    /\ UNCHANGED <<metadata, aux_info, tls, mutex, pb_out>>

NextRace ==
    \/ \E t \in Threads, p \in Ptrs, x \in Codes :
        /\ pc[t] = Idle
        /\ SET_WAIT_STATUS_TO(p, x)
        /\ UNCHANGED idle
    \/ \E t \in Threads, p \in Ptrs, x \in Codes :
        /\ Len(scopes[t]) < MaxStatusDepth
        /\ ScopedWaitStatus_ctor_get_state(t, p, x)
        /\ UNCHANGED hist
    \/ \E t \in Threads :
        ScopedWaitStatus_ctor_set_state(t) /\ UNCHANGED hist
    \/ \E t \in Threads, i \in 1..MaxStatusDepth, leaving \in BOOLEAN :
        ResetToPrevStatus_get_state(t, i, leaving) /\ UNCHANGED hist
    \/ \E t \in Threads :
        ResetToPrevStatus_set_state(t) /\ UNCHANGED hist

SpecRace == Init /\ [][NextRace]_vars

\* C15: whatever another thread writes and whenever, the store of a guard's
\* restore (in its destructor or in ResetToPrevStatus) overwrites the
\* container's code only when the code it overwrites is the one the guard
\* set; it never replaces another thread's code with the captured one.
C15_RestoreOverwritesOnlyOwnCode ==
    [][\A t \in Threads :
          (pc[t].op = "restore" /\ pc'[t] = Idle)
              => get_state(pc[t].guard.wait_state) = pc[t].guard.state]_vars

(***************************************************************************)
(* SpecLock: the operations on a container's guarded records, step by      *)
(* step.  Each takes the container's mutex_ (std::lock_guard on a          *)
(* simple_spinlock), reads or writes the records one field at a time, and  *)
(* releases the mutex_ on return; set_state takes no lock.                 *)
(***************************************************************************)

\* The order in which AUHMetadata::UpdateFrom and ToPB go through the fields.
MetaOrder ==
    <<"top_level_request_id", "top_level_node_id", "query_id",
      "current_request_id", "client_node_host", "client_node_port">>

\* The order in which AUHAuxInfo::UpdateFrom and ToPB go through the fields.
AuxOrder == <<"tablet_id", "table_id", "method">>

\* The operations that take the mutex_; set_state takes it, in the ToString()
\* of its VLOG(3) statement, when verbose logging is on.
LockOps ==
    {"UpdateMetadata", "UpdateAuxInfo", "set_query_id", "query_id",
     "ToString", "ToPB", "set_state"}

\* The number of steps an operation takes while it holds the mutex_.
BodyLen(op) ==
    CASE op = "UpdateMetadata" -> Len(MetaOrder)
      [] op = "UpdateAuxInfo" -> Len(AuxOrder)
      [] op = "ToPB" -> Len(MetaOrder) + 1 + Len(AuxOrder)
      [] OTHER -> 1

\* Thread t is inside operation op, at body step k (0: before the mutex_ is
\* taken; BodyLen(op) + 1: before it is released).
Inside(t, op) == pc[t].op = op

\* Thread t moves on to its next step.
Advance(t) == [pc EXCEPT ![t].at = @ + 1]

\* Thread t calls operation op of container c with argument arg; a ToPB
\* call passes a fresh message.
Call(t, op, c, arg) ==
    /\ pc[t] = Idle
    /\ pc' = [pc EXCEPT ![t] = [op |-> op, c |-> c, arg |-> arg, at |-> 0]]
    /\ pb_out' = IF op = "ToPB" THEN [pb_out EXCEPT ![t] = EmptyWaitStatePB]
                 ELSE pb_out
    /\ UNCHANGED <<prog, mutex>>

\* Mutant of lock_guard_ctor: the operation goes on without waiting for the
\* mutex_ to be free.
lock_guard_ctor_no_wait(t) ==
    /\ pc[t].op \in LockOps
    /\ pc[t].at = 0
    /\ mutex' = [mutex EXCEPT ![pc[t].c] = t]
    /\ pc' = Advance(t)
    /\ UNCHANGED <<prog, pb_out>>

\* std::lock_guard<simple_spinlock> l(mutex_): thread t takes the mutex_ of
\* the container it operates on, once it is free.
lock_guard_ctor(t) ==
    /\ pc[t].op \in LockOps
    /\ pc[t].at = 0
    /\ mutex[pc[t].c] = NoThread
    /\ mutex' = [mutex EXCEPT ![pc[t].c] = t]
    /\ pc' = Advance(t)
    /\ UNCHANGED <<prog, pb_out>>

\* Mutant of lock_guard_dtor: the operation returns without releasing the
\* mutex_.
lock_guard_dtor_leak(t) ==
    /\ pc[t].op \in LockOps
    /\ pc[t].at = BodyLen(pc[t].op) + 1
    /\ pc' = IF Inside(t, "set_state") THEN Advance(t)
             ELSE [pc EXCEPT ![t] = Idle]
    /\ UNCHANGED <<prog, mutex, pb_out>>

\* The lock_guard goes out of scope: thread t releases the mutex_ and the
\* operation returns (in set_state, ToString() returns and set_state goes
\* on).
lock_guard_dtor(t) ==
    /\ pc[t].op \in LockOps
    /\ pc[t].at = BodyLen(pc[t].op) + 1
    /\ mutex' = [mutex EXCEPT ![pc[t].c] = NoThread]
    /\ pc' = IF Inside(t, "set_state") THEN Advance(t)
             ELSE [pc EXCEPT ![t] = Idle]
    /\ UNCHANGED <<prog, pb_out>>

\* code_ = c at the end of a set_state that logged.
set_state_store(t) ==
    /\ Inside(t, "set_state")
    /\ pc[t].at = BodyLen("set_state") + 2
    /\ code' = set_state(pc[t].c, pc[t].arg)
    /\ pc' = [pc EXCEPT ![t] = Idle]
    /\ UNCHANGED <<metadata, aux_info, tls, scopes, mutex, pb_out>>

\* One if-statement of AUHMetadata::UpdateFrom inside UpdateMetadata.
UpdateMetadata_field(t) ==
    /\ Inside(t, "UpdateMetadata")
    /\ pc[t].at \in 1..Len(MetaOrder)
    /\ LET f == MetaOrder[pc[t].at]
       IN metadata' = [metadata EXCEPT ![pc[t].c][f] =
                          IF pc[t].arg[f] # MetaBlank(f) THEN pc[t].arg[f] ELSE @]
    /\ pc' = Advance(t)
    /\ UNCHANGED <<code, aux_info, tls, scopes, mutex, pb_out>>

\* One if-statement of AUHAuxInfo::UpdateFrom inside UpdateAuxInfo.
UpdateAuxInfo_field(t) ==
    /\ Inside(t, "UpdateAuxInfo")
    /\ pc[t].at \in 1..Len(AuxOrder)
    /\ LET f == AuxOrder[pc[t].at]
       IN aux_info' = [aux_info EXCEPT ![pc[t].c][f] =
                          IF pc[t].arg[f] # "" THEN pc[t].arg[f] ELSE @]
    /\ pc' = Advance(t)
    /\ UNCHANGED <<code, metadata, tls, scopes, mutex, pb_out>>

\* metadata_.query_id = query_id inside set_query_id.
set_query_id_store(t) ==
    /\ Inside(t, "set_query_id")
    /\ pc[t].at = 1
    /\ metadata' = [metadata EXCEPT ![pc[t].c].query_id = pc[t].arg]
    /\ pc' = Advance(t)
    /\ UNCHANGED <<code, aux_info, tls, scopes, mutex, pb_out>>

\* The read inside query_id() and ToString(), the latter also when called
\* by set_state.
guarded_read(t) ==
    /\ pc[t].op \in {"query_id", "ToString", "set_state"}
    /\ pc[t].at = 1
    /\ pc' = Advance(t)
    /\ UNCHANGED <<prog, mutex, pb_out>>

\* What one if-statement of AUHMetadata::ToPB leaves in field f of the
\* message.
MetadataFieldToPB(self, pb, f) ==
    IF f \in MetaIntFields
    THEN IF self[f] # 0 THEN Present(self[f]) ELSE pb[f]
    ELSE IF Len(self[f]) = 2 THEN pb[f] \o <<self[f][1], self[f][2]>> ELSE pb[f]

\* One statement of WaitStateInfo::ToPB: a field of metadata_, then the
\* code, then a field of aux_info_.
ToPB_field(t) ==
    /\ Inside(t, "ToPB")
    /\ pc[t].at \in 1..BodyLen("ToPB")
    /\ LET k == pc[t].at
           c == pc[t].c
           n == Len(MetaOrder)
       IN pb_out' =
            IF k <= n
            THEN [pb_out EXCEPT ![t].metadata[MetaOrder[k]] =
                     MetadataFieldToPB(metadata[c], pb_out[t].metadata, MetaOrder[k])]
            ELSE IF k = n + 1
            THEN [pb_out EXCEPT ![t].wait_status_code = Present(get_state(c))]
            ELSE [pb_out EXCEPT ![t].aux_info[AuxOrder[k - n - 1]] =
                     Present(aux_info[c][AuxOrder[k - n - 1]])]
    /\ pc' = Advance(t)
    /\ UNCHANGED <<prog, mutex>>

\* The arguments UpdateMetadata is called with in SpecLock.
LockMetas ==
    {[DefaultMetadata EXCEPT !.top_level_request_id = Vec(2), !.query_id = 1,
                             !.client_node_port = 1]}

\* The arguments UpdateAuxInfo is called with in SpecLock.
LockAuxes ==
    {[DefaultAuxInfo EXCEPT !.tablet_id = "a", !.method = "a"]}

\* What the operation of program counter p leaves of the records w when
\* taken whole.
TakenWhole(p, w) ==
    CASE p.op = "UpdateMetadata" -> <<AUHMetadata_UpdateFrom(w[1], p.arg), w[2]>>
      [] p.op = "UpdateAuxInfo" -> <<w[1], AUHAuxInfo_UpdateFrom(w[2], p.arg)>>
      [] p.op = "set_query_id" -> <<[w[1] EXCEPT !.query_id = p.arg], w[2]>>
      [] OTHER -> w

\* Thread t takes the mutex_; a ToPB records the records it finds, and an
\* updater what its operation, taken whole, makes of them.
Acquire(t) ==
    /\ lock_guard_ctor(t)
    /\ snap' = IF Inside(t, "ToPB")
               THEN [snap EXCEPT ![t] = <<metadata[pc[t].c], aux_info[pc[t].c]>>]
               ELSE snap
    /\ whole' = [whole EXCEPT ![pc[t].c] = TakenWhole(pc[t], @)]
    /\ UNCHANGED <<initial_code, initial_tls, adopted, reset_called>>

\* Thread t takes the next step of the operation it is inside, past the
\* taking of the mutex_.
Proceed(t) ==
    \/ UpdateMetadata_field(t) /\ UNCHANGED hist
    \/ UpdateAuxInfo_field(t) /\ UNCHANGED hist
    \/ set_query_id_store(t) /\ UNCHANGED hist
    \/ guarded_read(t) /\ UNCHANGED hist
    \/ ToPB_field(t) /\ UNCHANGED hist
    \/ lock_guard_dtor(t) /\ UNCHANGED hist
    \/ set_state_store(t) /\ UNCHANGED hist

\* Thread t calls ToPB of container c.
CallToPB(t, c) ==
    /\ Call(t, "ToPB", c, 0)
    /\ snap' = [snap EXCEPT ![t] = NoSnap]
    /\ UNCHANGED <<initial_code, initial_tls, adopted, reset_called, whole>>

NextLock ==
    \/ \E t \in Threads, c \in DataContainers, meta \in LockMetas :
        Call(t, "UpdateMetadata", c, meta) /\ UNCHANGED hist
    \/ \E t \in Threads, c \in DataContainers, aux \in LockAuxes :
        Call(t, "UpdateAuxInfo", c, aux) /\ UNCHANGED hist
    \/ \E t \in Threads, c \in DataContainers :
        Call(t, "set_query_id", c, 0) /\ UNCHANGED hist
    \/ \E t \in Threads, c \in DataContainers, op \in {"query_id", "ToString"} :
        Call(t, op, c, 0) /\ UNCHANGED hist
    \/ \E t \in Threads, c \in DataContainers :
        CallToPB(t, c)
    \/ \E t \in Threads, c \in DataContainers, x \in {Unused, 1} :
        Call(t, "set_state", c, x) /\ UNCHANGED hist
    \/ \E t \in Threads, c \in DataContainers, x \in {Unused, 1} :
        /\ pc[t] = Idle
        /\ SET_WAIT_STATUS_TO(c, x)
        /\ UNCHANGED idle
    \/ \E t \in Threads : Acquire(t)
    \/ \E t \in Threads : Proceed(t)

SpecLock == Init /\ [][NextLock]_vars

\* The operation thread t is inside changes the guarded records.
Updating(t) == pc[t].op \in {"UpdateMetadata", "UpdateAuxInfo", "set_query_id"}

\* Thread t holds the mutex_ of the container it operates on.
Holding(t) ==
    /\ pc[t].op \in LockOps
    /\ pc[t].at \in 1..(BodyLen(pc[t].op) + 1)

\* The metadata and auxiliary part of message pb are the records rec, all
\* of them, as ToPB writes them.
SerializesRecords(pb, rec) ==
    /\ pb.metadata = AUHMetadata_ToPB(rec[1], EmptyMetadataPB)
    /\ pb.aux_info = AUHAuxInfo_ToPB(rec[2], EmptyAuxInfoPB)

\* C16: the metadata and auxiliary information a ToPB call returns are the
\* container's records as they were at the one instant the call took the
\* mutex_, and at that instant, as all the time ToPB holds the mutex_, the
\* records are the result of whole operations only: no UpdateMetadata or
\* UpdateAuxInfo is ever seen half applied, and the two records are never
\* taken at different instants.
C16_LockProtectedSnapshot ==
    \A t \in Threads :
        /\ (Inside(t, "ToPB") /\ Holding(t))
              => /\ snap[t] = <<metadata[pc[t].c], aux_info[pc[t].c]>>
                 /\ snap[t] = whole[pc[t].c]
                 /\ \A u \in Threads \ {t} :
                       (Updating(u) /\ pc[u].c = pc[t].c) => ~Holding(u)
        /\ (Inside(t, "ToPB") /\ pc[t].at = BodyLen("ToPB") + 1)
              => SerializesRecords(pb_out[t], snap[t])
        /\ (pc[t] = Idle /\ snap[t] # NoSnap)
              => SerializesRecords(pb_out[t], snap[t])

\* C16 happens: a ToPB call has returned the records of the instant it took
\* the mutex_, and meanwhile another thread is half way through an
\* UpdateMetadata that has already changed them.
C16_Witness ==
    \E t \in Threads : \E u \in Threads \ {t} :
        /\ pc[t] = Idle
        /\ snap[t] # NoSnap
        /\ snap[t][1].top_level_request_id = Vec(2)
        /\ snap[t][1].query_id = 0
        /\ snap[t][2].method = "a"
        /\ SerializesRecords(pb_out[t], snap[t])
        /\ Inside(u, "UpdateMetadata")
        /\ pc[u].at = 4
        /\ snap[t][1] # metadata[pc[u].c]

(***************************************************************************)
(* SpecSlots: every thread installs containers in its slot, directly and   *)
(* through ScopedWaitState guards, in any interleaving.                    *)
(***************************************************************************)

NextSlots ==
    \/ \E t \in Threads, p \in Ptrs :
        CallSetCurrentWaitState(t, p) /\ UNCHANGED idle
    \/ \E t \in Threads, p \in Ptrs :
        /\ Len(scopes[t]) < MaxDepth
        /\ SCOPED_ADOPT_WAIT_STATE(t, p)
        /\ UNCHANGED idle
    \/ \E t \in Threads :
        ScopedWaitState_dtor(t) /\ UNCHANGED idle

SpecSlots == Init /\ [][NextSlots]_vars

\* The slot of every thread but t is the same after the step.
OtherSlotsKept(t) ==
    \A u \in Threads \ {t} : CurrentWaitState(u)' = CurrentWaitState(u)

\* C17: a step that is SetCurrentWaitState on thread t, or the construction
\* or destruction of a ScopedWaitState on thread t, leaves what
\* CurrentWaitState() returns on every other thread as it was.
C17_SlotIsolation ==
    [][\A t \in Threads :
          /\ \A p \in Ptrs :
                (CallSetCurrentWaitState(t, p) \/ SCOPED_ADOPT_WAIT_STATE(t, p))
                    => OtherSlotsKept(t)
          /\ ScopedWaitState_dtor(t) => OtherSlotsKept(t)]_vars

\* C17 happens: both threads have a ScopedWaitState alive, each adopted a
\* different container, and each slot holds its own thread's container.
C17_Witness ==
    /\ scopes["t1"] # <<>>
    /\ scopes["t2"] # <<>>
    /\ Top("t1").prev_state = NullPtr
    /\ Top("t2").prev_state = "c1"
    /\ CurrentWaitState("t1") = "c1"
    /\ CurrentWaitState("t2") = "c2"

(***************************************************************************)
(* The container a status guard is bound to, checked under Spec.           *)
(***************************************************************************)

\* Guard g of thread t has a target, and the slot of t holds something else
\* by now.
SlotMovedOn(t, g) ==
    /\ g.kind = "ScopedWaitStatus"
    /\ g.wait_state # NullPtr
    /\ CurrentWaitState(t) # g.wait_state

\* C18: SCOPED_WAIT_STATUS(x) binds the guard to the container in the
\* thread's slot at construction; no later step changes a live guard's
\* target; and when the slot holds another container or nothing by the time
\* the guard is reset or destroyed, the compare-and-restore is applied to
\* the captured container, from its code alone, and every other
\* container's code is left as it is.
C18_GuardBoundToCaptured ==
    [][\A t \in GuardThreads :
          /\ \A x \in Codes :
                (Len(scopes[t]) < MaxDepth /\ SCOPED_WAIT_STATUS(t, x))
                    => scopes'[t][Len(scopes'[t])].wait_state = CurrentWaitState(t)
          /\ \A i \in 1..Len(scopes[t]) :
                (i <= Len(scopes'[t]) /\ scopes[t][i].kind = "ScopedWaitStatus")
                    => scopes'[t][i].wait_state = scopes[t][i].wait_state
          /\ (StatusDtorStep(t) /\ SlotMovedOn(t, Top(t)))
                => /\ ComparedAndRestored(Top(t))
                   /\ \A d \in Containers \ {Top(t).wait_state} :
                         get_state(d)' = get_state(d)
          /\ \A i \in 1..Len(scopes[t]) :
                (CallResetToPrevStatus(t, i) /\ SlotMovedOn(t, scopes[t][i]))
                    => /\ ComparedAndRestored(scopes[t][i])
                       /\ \A d \in Containers \ {scopes[t][i].wait_state} :
                             get_state(d)' = get_state(d)]_vars

\* C18 happens: a status guard that captured c1 is the innermost guard of
\* its thread, the slot holds c2 by now, and both containers hold the code
\* the guard set, so that a restore applied to the slot's container would
\* change c2.
C18_Witness ==
    \E t \in GuardThreads :
        /\ scopes[t] # <<>>
        /\ SlotMovedOn(t, Top(t))
        /\ Top(t).wait_state = "c1"
        /\ CurrentWaitState(t) = "c2"
        /\ get_state("c1") = Top(t).state
        /\ get_state("c2") = Top(t).state
        /\ Top(t).prev_state # Top(t).state

(***************************************************************************)
(* SpecMerges: the merging operations only, called with every argument,    *)
(* from a thread whose slot holds the container and from one whose slot is *)
(* empty.                                                                  *)
(***************************************************************************)

NextMerges ==
    \/ \E c \in DataContainers, meta \in AUHMetadata :
        CallUpdateMetadata(c, meta) /\ UNCHANGED idle
    \/ \E c \in DataContainers, aux \in AUHAuxInfo :
        CallUpdateAuxInfo(c, aux) /\ UNCHANGED idle
    \/ \E t \in Threads, pb \in DataPBs :
        UpdateMetadataFromPB(t, pb) /\ UNCHANGED idle

SpecMerges == InitData /\ [][NextMerges]_vars

\* C19: no UpdateMetadata, UpdateAuxInfo or UpdateMetadataFromPB step makes
\* a metadata field that is non-zero (non-empty, for the id vectors) zero
\* or empty, or an auxiliary string that is non-empty empty.
C19_SetFieldsStaySet ==
    [][\A c \in Containers :
          /\ \A f \in MetaFields :
                metadata[c][f] # MetaBlank(f) => metadata'[c][f] # MetaBlank(f)
          /\ \A f \in AuxFields :
                aux_info[c][f] # "" => aux_info'[c][f] # ""]_vars

\* C19 happens: every field of the container's two records is set, after
\* merges only.
C19_Witness ==
    /\ \A f \in MetaFields : metadata["c1"][f] # MetaBlank(f)
    /\ \A f \in AuxFields : aux_info["c1"][f] # ""

(***************************************************************************)
(* SpecCalls: two threads calling the operations of two shared containers, *)
(* step by step as in SpecLock, with arguments that leave the records as   *)
(* they are.  SpecCallsFair adds the scheduling: a thread that can take a  *)
(* step of its operation eventually takes it, and a thread spinning on a   *)
(* mutex_ that is free again and again eventually takes it.  A guard's     *)
(* construction, reset and destruction are get_state and set_state calls.  *)
(***************************************************************************)

NextCalls ==
    \/ \E t \in Threads, c \in Containers :
        Call(t, "UpdateMetadata", c, DefaultMetadata) /\ UNCHANGED hist
    \/ \E t \in Threads, c \in Containers :
        Call(t, "UpdateAuxInfo", c, DefaultAuxInfo) /\ UNCHANGED hist
    \/ \E t \in Threads, c \in Containers :
        Call(t, "set_query_id", c, 0) /\ UNCHANGED hist
    \/ \E t \in Threads, c \in Containers, op \in {"query_id", "ToString"} :
        Call(t, op, c, 0) /\ UNCHANGED hist
    \/ \E t \in Threads, c \in Containers :
        CallToPB(t, c)
    \/ \E t \in Threads, c \in Containers :
        Call(t, "set_state", c, 1) /\ UNCHANGED hist
    \/ \E t \in Threads, c \in Containers :
        /\ pc[t] = Idle
        /\ SET_WAIT_STATUS_TO(c, Unused)
        /\ UNCHANGED idle
    \/ \E t \in Threads : Acquire(t)
    \/ \E t \in Threads : Proceed(t)

SpecCalls == Init /\ [][NextCalls]_vars

SpecCallsFair ==
    /\ SpecCalls
    /\ \A t \in Threads : WF_vars(Proceed(t)) /\ SF_vars(Acquire(t))

\* Thread t is inside an operation and has not taken the mutex_ yet.
Waiting(t) ==
    /\ pc[t].op \in LockOps
    /\ pc[t].at = 0

\* At every instant: a mutex_ is held only by a thread inside an operation
\* of that container, between taking and releasing it, so a thread holds at
\* most the mutex_ of the container it operates on and none once it has
\* returned; a thread that goes for a mutex_ holds none; and some thread
\* does not wait for a held mutex_.
C20_LockDiscipline ==
    /\ \A c \in Containers :
          mutex[c] # NoThread
              => /\ Holding(mutex[c])
                 /\ pc[mutex[c]].c = c
    /\ \A t \in Threads :
          /\ Holding(t) => mutex[pc[t].c] = t
          /\ Waiting(t) => \A c \in Containers : mutex[c] # t
    /\ \E t \in Threads :
          ~(Waiting(t) /\ mutex[pc[t].c] # NoThread)

=============================================================================
